---- MODULE Spec2Model ----
(***************************************************************************)
(* FireOS package pipeline: the upload route (ingest), the scan route and  *)
(* the install route, modelled as request handlers that interleave at      *)
(* their awaits on the shared stores (the S3 bucket and the Supabase       *)
(* tables apps, threat_logs, admin_notifications, installations).          *)
(***************************************************************************)
EXTENDS Integers, Sequences, FiniteSets, TLC

\* ------------------------------------------------------------------ bounds
\* The number of requests (uploads, scans and installs together) a behaviour
\* holds.
MaxRequests == 3

Uploads == 1..MaxRequests
Runs == 1..MaxRequests
Installs == 1..MaxRequests

\* ------------------------------------------------------------ input data
\* Entry names are token sequences, so that the suffix patterns of the code
\* can be evaluated on them.
Lower(tok) ==
    CASE tok = "EXE" -> "exe"
      [] tok = "PNG" -> "png"
      [] tok = "__MACOSX" -> "__macosx"
      [] tok = ".DS_Store" -> ".ds_store"
      [] OTHER -> tok

\* The byte sequences a client may upload, by name, and the archive each one
\* is: its entry names in the enumeration order of the zip index (none for
\* bytes JSZip cannot open, see IsArchive).
Contents == {"clean_zip", "exe_zip", "not_zip", "bomb_zip",
             "junk_zip", "junk_lower_zip", "upper_exe_zip", "shots_zip"}

IsArchive(b) == b # "not_zip"

Entries(b) ==
    CASE b = "clean_zip" -> << <<"icon", ".", "png">>,
                               <<"screenshot", "1", ".", "png">>,
                               <<"manifest", ".", "json">> >>
      [] b = "exe_zip"   -> << <<"icon", ".", "png">>,
                               <<"payload", ".", "exe">> >>
      [] b = "bomb_zip"  -> << <<"icon", ".", "png">>,
                               <<"data", ".", "bin">> >>
      [] b = "junk_zip"  -> << <<"__MACOSX", "/", "notes", ".", "txt">>,
                               <<"icon", ".", "png">>,
                               <<".DS_Store">> >>
      [] b = "junk_lower_zip" -> << <<"icon", ".", "png">>,
                                    <<"__macosx", "/", "notes", ".", "txt">>,
                                    <<".ds_store">> >>
      [] b = "upper_exe_zip"  -> << <<"PAYLOAD", ".", "EXE">> >>
      [] b = "shots_zip" -> << <<"icon", ".", "png">>,
                               <<"screenshot", "1", ".", "png">>,
                               <<"readme", ".", "txt">>,
                               <<"screenshot", "2", ".", "PNG">>,
                               <<"screenshot", "notes", ".", "txt">>,
                               <<"img/", "screenshot", "3", ".", "jpg">>,
                               <<"screenshot", "4", ".", "jpeg">>,
                               <<"screenshot", "5", ".", "png">>,
                               <<"photo", ".", "png">>,
                               <<"screenshot", "6", ".", "png">>,
                               <<"screenshot", "7", ".", "png">> >>
      [] OTHER           -> << >>

\* The sum of the uncompressed sizes the archive's index declares, in bytes
\* (bomb_zip: a small archive that inflates to 1 GiB).
UncompressedSize(b) ==
    CASE b = "clean_zip" -> 4096
      [] b = "exe_zip"   -> 8192
      [] b = "bomb_zip"  -> 1073741824
      [] OTHER           -> 0

\* limits.fileSize of the multer configuration, the one size ceiling the
\* upload route configures; the POST handler does not use it.
FileSizeLimit == 104857600

\* A multipart "apk" part: the bytes and the extension of the file name.
Files == { [bytes |-> "clean_zip", ext |-> "zip"],
           [bytes |-> "clean_zip", ext |-> "apk"],
           [bytes |-> "exe_zip", ext |-> "zip"],
           [bytes |-> "not_zip", ext |-> "apk"] }

NoFile == [bytes |-> "none", ext |-> "none"]

\* crypto.createHash('sha256').update(bytes).digest('hex'): distinct bytes
\* give distinct digests (collision resistance), and a digest is not bytes.
Sha256(b) == <<"sha256", b>>

\* A hash of the file name instead of the bytes, as the multer key does.
FileHashOfName(file) == Sha256(file.ext)

\* fileHash of the upload handler.
FileHash(file) == Sha256(file.bytes)

\* A key made from the file name alone.
S3KeyByName(fileHash, ext) == <<"apks", <<"name", ext>>, ext>>

S3Key(fileHash, ext) == <<"apks", fileHash, ext>>
IconKey(fileHash) == <<"icons", fileHash>>
ScreenshotKey(fileHash, i) == <<"screenshots", fileHash, i>>
UrlOf(key) == <<"https", key>>
KeyOfUrl(url) == url[2]

\* /\.(exe|bat|sh|php|py|js)$/i, /__MACOSX/, /\.DS_Store/
ScriptSuffixes == {"exe", "bat", "sh", "php", "py", "js"}

MatchesSuffix(name) ==
    /\ Len(name) >= 2
    /\ name[Len(name) - 1] = "."
    /\ Lower(name[Len(name)]) \in ScriptSuffixes

MatchesJunk(name) ==
    \E i \in 1..Len(name) : name[i] \in {"__MACOSX", ".DS_Store"}

IsMalicious(name) == MatchesSuffix(name) \/ MatchesJunk(name)

\* maliciousFiles: every matching entry name, in enumeration order.
MaliciousFiles(b) == SelectSeq(Entries(b), IsMalicious)

IconNames == << <<"icon", ".", "png">>,
                <<"assets/", "icon", ".", "png">>,
                <<"res/drawable/", "icon", ".", "png">> >>

HasIcon(b) ==
    \E i \in 1..Len(IconNames) : \E j \in 1..Len(Entries(b)) : Entries(b)[j] = IconNames[i]

IsScreenshot(name) ==
    /\ \E i \in 1..Len(name) : name[i] = "screenshot"
    /\ Len(name) >= 2
    /\ name[Len(name) - 1] = "."
    /\ Lower(name[Len(name)]) \in {"png", "jpg", "jpeg"}

ScreenshotFiles(b) == SelectSeq(Entries(b), IsScreenshot)

MaxScreenshots == 5

\* The first argument whatever the second.
First(a, b) == a

Min(a, b) == IF a < b THEN a ELSE b

\* ----------------------------------------------------------------- state
VARIABLES
    apps,        \* table apps: the rows, in insertion order; id = position
    s3,          \* the bucket: key -> body
    threat_logs, \* table threat_logs, in insertion order
    admin_notifications, \* table admin_notifications, in insertion order
    up,          \* the upload requests: position and locals of each
    run,         \* the scan requests: position and locals of each
    nextRun,     \* number of scan requests received so far
    installations, \* table installations, in insertion order
    shortcuts,   \* table shortcuts, in insertion order
    inst,        \* the install requests: position and locals of each
    users,       \* table users, in insertion order; id = position
    sessions,    \* table sessions, in insertion order
    rateLimiter, \* points the rate limiter has consumed for the client address
    now,         \* the clock, in quarters of an hour
    login        \* the login requests: position and locals of each

vars == <<apps, s3, threat_logs, admin_notifications, up, run, nextRun,
          installations, shortcuts, inst, users, sessions, rateLimiter, now, login>>

auth == <<users, sessions, rateLimiter, now, login>>

stores == <<apps, s3, threat_logs, admin_notifications, installations, shortcuts>>

Null == "null"

\* resp and error are the response: the HTTP status and the error text.
\* files is the files property of the response body. after records, when
\* the request is received, whether an upload of the same bytes had already
\* been answered with success.
IdleUpload == [pc |-> "idle", file |-> NoFile, fileHash |-> <<>>, shot |-> 0,
               appId |-> 0, resp |-> 0, error |-> "", files |-> <<>>,
               after |-> FALSE]

\* order lists the engines in the order they settled, where the engines are
\* followed one by one.
IdleRun == [pc |-> "idle", appId |-> 0, fileHash |-> <<>>, url |-> <<>>,
            buffer |-> Null, outcome |-> <<>>, order |-> <<>>, results |-> <<>>,
            threats |-> <<>>, status |-> Null, resp |-> 0]

IdleInstall == [pc |-> "idle", appId |-> 0, userId |-> 0, app |-> <<>>, resp |-> 0]

\* What a login request posts: the email, the password (after decryption:
\* the account's, another of valid length, or one under 12 characters),
\* the TOTP code and the biometric credential, if any.
Attempt(email, password, totp, biometric) ==
    [email |-> email, password |-> password, totp |-> totp, biometric |-> biometric]

NoAttempt == Attempt("", "", "", "")

Attempts ==
    { Attempt("user@fireos", "right", "valid", "none"),
      Attempt("user@fireos", "right", "invalid", "none"),
      Attempt("user@fireos", "wrong", "valid", "none"),
      Attempt("user@fireos", "right", "valid", "enrolled"),
      Attempt("user@fireos", "right", "valid", "unknown"),
      Attempt("user@fireos", "short", "valid", "none"),
      Attempt("nobody@fireos", "right", "valid", "none") }

\* user is the row as the request read it (an option); token tells whether
\* the response carries a token.
IdleLogin == [pc |-> "idle", attempt |-> NoAttempt, user |-> <<>>, resp |-> 0,
              token |-> FALSE]

\* Login requests the model follows.
MaxLogins == 2

Logins == 1..MaxLogins

\* The one row of the users table; the timestamp columns no handler reads
\* (last_failed_attempt, last_login) are left out.
Account(failed_attempts, totp_enabled) ==
    [id |-> 1, email |-> "user@fireos", failed_attempts |-> failed_attempts,
     locked_until |-> <<>>, totp_enabled |-> totp_enabled]

\* No login request has been received.
LoginAtRest ==
    /\ users = <<Account(0, TRUE)>>
    /\ sessions = <<>>
    /\ rateLimiter = 0
    /\ now = 0
    /\ login = [l \in Logins |-> IdleLogin]

\* Requests received so far, of the three kinds.
Received ==
    Cardinality({u \in Uploads : up[u].pc # "idle"}) + nextRun
        + Cardinality({n \in Installs : inst[n].pc # "idle"})

Init ==
    /\ installations = <<>>
    /\ shortcuts = <<>>
    /\ inst = [n \in Installs |-> IdleInstall]
    /\ apps = <<>>
    /\ s3 = <<>>
    /\ threat_logs = <<>>
    /\ admin_notifications = <<>>
    /\ up = [u \in Uploads |-> IdleUpload]
    /\ run = [r \in Runs |-> IdleRun]
    /\ nextRun = 0
    /\ LoginAtRest

\* ------------------------------------------------------- the two stores
\* supabase.from('apps').select('id').eq('hash', h).single(): the row when
\* exactly one row matches, else no data.
RowsWithHash(h) == {i \in 1..Len(apps) : apps[i].hash = h}

\* The lookup narrowed to verified rows.
SelectSingleVerifiedByHash(h) ==
    IF Cardinality({i \in RowsWithHash(h) : apps[i].verified}) = 1
    THEN CHOOSE i \in RowsWithHash(h) : apps[i].verified
    ELSE 0

SelectSingleByHash(h) ==
    IF Cardinality(RowsWithHash(h)) = 1
    THEN CHOOSE i \in RowsWithHash(h) : TRUE
    ELSE 0

\* The apps table rejects an insert whose hash is already present.
InsertViolatesUnique(h) == RowsWithHash(h) # {}

S3Put(key, body) == (key :> body) @@ s3

\* The row the upload handler inserts.
NewAppRow(fileHash, ext, id, shots) ==
    [id |-> id,
     hash |-> fileHash,
     download_url |-> UrlOf(S3Key(fileHash, ext)),
     screenshot_urls |-> [k \in 1..shots |-> UrlOf(ScreenshotKey(fileHash, k - 1))],
     verified |-> FALSE,
     status |-> Null,
     scan_results |-> <<>>,
     threats |-> <<>>,
     downloads |-> 0]

\* --------------------------------------------------- upload route (POST)
Finish(u, code, msg) ==
    up' = [up EXCEPT ![u].pc = "done", ![u].resp = code, ![u].error = msg]

\* The request handled with the package written to the bucket ahead of the
\* duplicate check.
IngestStartUploadFirst(u, file, manifest) ==
    /\ up[u].pc = "idle"
    /\ \A v \in Uploads : v < u => up[v].pc # "idle"
    /\ Received < MaxRequests
    /\ IF manifest = "malformed"
       THEN s3' = s3 /\ Finish(u, 500, "Unexpected token")
       ELSE IF file = NoFile \/ manifest = "missing"
       THEN s3' = s3 /\ Finish(u, 400, "File and manifest required")
       ELSE /\ s3' = S3Put(S3Key(FileHash(file), file.ext), file.bytes)
            /\ up' = [up EXCEPT ![u].pc = IF SelectSingleByHash(FileHash(file)) # 0
                                          THEN "done" ELSE "icon",
                                ![u].resp = IF SelectSingleByHash(FileHash(file)) # 0
                                            THEN 409 ELSE 0,
                                ![u].error = IF SelectSingleByHash(FileHash(file)) # 0
                                             THEN "App already exists" ELSE "",
                                ![u].file = file,
                                ![u].fileHash = FileHash(file)]
    /\ UNCHANGED <<apps, threat_logs, admin_notifications, run, nextRun,
                   installations, shortcuts, inst>>
    /\ UNCHANGED auth

\* The request is read (formData, the manifest parse, the hash) and the
\* duplicate check is made: the first access to a store.
IngestStart(u, file, manifest) ==
    /\ up[u].pc = "idle"
    /\ \A v \in Uploads : v < u => up[v].pc # "idle"
    /\ Received < MaxRequests
    /\ IF manifest = "malformed"
       THEN Finish(u, 500, "Unexpected token")
       ELSE IF file = NoFile \/ manifest = "missing"
       THEN Finish(u, 400, "File and manifest required")
       ELSE up' = [up EXCEPT ![u].pc = IF SelectSingleByHash(FileHash(file)) # 0
                                       THEN "done" ELSE "put",
                             ![u].resp = IF SelectSingleByHash(FileHash(file)) # 0
                                         THEN 409 ELSE 0,
                             ![u].error = IF SelectSingleByHash(FileHash(file)) # 0
                                          THEN "App already exists" ELSE "",
                             ![u].file = file,
                             ![u].fileHash = FileHash(file),
                             ![u].after = \E v \in Uploads :
                                 /\ up[v].pc = "done" /\ up[v].resp = 200
                                 /\ up[v].file.bytes = file.bytes]
    /\ UNCHANGED <<apps, s3, threat_logs, admin_notifications, run, nextRun,
                   installations, shortcuts, inst>>
    /\ UNCHANGED auth

\* What follows a successful PutObject up to the next await on a store: the
\* archive is opened and its entry names are checked. DeleteObjectCommand is
\* not imported, so the branch that deletes the blob throws before it sends
\* anything.
AfterPut(u) ==
    IF ~IsArchive(up[u].file.bytes) THEN Finish(u, 500, "Corrupted zip")
    ELSE IF Len(MaliciousFiles(up[u].file.bytes)) > 0
    THEN Finish(u, 500, "DeleteObjectCommand is not defined")
    ELSE up' = [up EXCEPT ![u].pc = "icon"]

IngestPut(u, ok) ==
    /\ up[u].pc = "put"
    /\ IF ok
       THEN /\ s3' = S3Put(S3Key(up[u].fileHash, up[u].file.ext), up[u].file.bytes)
            /\ AfterPut(u)
       ELSE /\ s3' = s3
            /\ Finish(u, 500, "S3 error")
    /\ UNCHANGED <<apps, threat_logs, admin_notifications, run, nextRun,
                   installations, shortcuts, inst>>
    /\ UNCHANGED auth

\* The icon: the first of three fixed paths that exists.
IngestIcon(u, ok) ==
    /\ up[u].pc = "icon"
    /\ IF ~HasIcon(up[u].file.bytes)
       THEN /\ ok
            /\ s3' = s3
            /\ up' = [up EXCEPT ![u].pc = "shots", ![u].shot = 0]
       ELSE IF ok
       THEN /\ s3' = S3Put(IconKey(up[u].fileHash), <<"icon", up[u].file.bytes>>)
            /\ up' = [up EXCEPT ![u].pc = "shots", ![u].shot = 0]
       ELSE /\ s3' = s3
            /\ Finish(u, 500, "S3 error")
    /\ UNCHANGED <<apps, threat_logs, admin_notifications, run, nextRun,
                   installations, shortcuts, inst>>
    /\ UNCHANGED auth

NumShots(u) == Min(Len(ScreenshotFiles(up[u].file.bytes)), MaxScreenshots)

\* One iteration of the screenshot loop (i = up[u].shot, counted from 0).
IngestShot(u, ok) ==
    /\ up[u].pc = "shots"
    /\ up[u].shot < NumShots(u)
    /\ IF ok
       THEN /\ s3' = S3Put(ScreenshotKey(up[u].fileHash, up[u].shot),
                           <<"shot", up[u].file.bytes,
                             ScreenshotFiles(up[u].file.bytes)[up[u].shot + 1]>>)
            /\ up' = [up EXCEPT ![u].shot = @ + 1]
       ELSE /\ s3' = s3
            /\ Finish(u, 500, "S3 error")
    /\ UNCHANGED <<apps, threat_logs, admin_notifications, run, nextRun,
                   installations, shortcuts, inst>>
    /\ UNCHANGED auth

\* supabase.from('apps').insert(...).select().single(), and the throw on
\* appError.
IngestInsert(u, ok) ==
    /\ up[u].pc = "shots"
    /\ up[u].shot = NumShots(u)
    /\ IF ok /\ ~InsertViolatesUnique(up[u].fileHash)
       THEN /\ apps' = Append(apps, NewAppRow(up[u].fileHash, up[u].file.ext, Len(apps) + 1,
                                                  up[u].shot))
            /\ up' = [up EXCEPT ![u].pc = "trigger", ![u].appId = Len(apps) + 1]
       ELSE /\ apps' = apps
            /\ Finish(u, 500, IF ok THEN "duplicate key value" ELSE "database error")
    /\ UNCHANGED <<s3, threat_logs, admin_notifications, run, nextRun,
                   installations, shortcuts, inst>>
    /\ UNCHANGED auth

\* A scan request as the scan route receives it.
NewRun(appId, fileHash, url) ==
    [IdleRun EXCEPT !.pc = "download", !.appId = appId, !.fileHash = fileHash,
                    !.url = url]

\* await fetch('https://scan.fireos.workers.dev', ...): the worker starts a
\* scan ("scan"), answers without starting one ("lost"), or the fetch
\* rejects ("error").
IngestTrigger(u, outcome) ==
    /\ up[u].pc = "trigger"
    /\ CASE outcome = "scan" ->
              /\ Received < MaxRequests
              /\ nextRun' = nextRun + 1
              /\ run' = [run EXCEPT ![nextRun + 1] =
                     NewRun(up[u].appId, up[u].fileHash, apps[up[u].appId].download_url)]
              /\ Finish(u, 200, "")
         [] outcome = "lost" ->
              /\ UNCHANGED <<run, nextRun>>
              /\ Finish(u, 200, "")
         [] OTHER ->
              /\ UNCHANGED <<run, nextRun>>
              /\ Finish(u, 500, "fetch failed")
    /\ UNCHANGED <<stores, inst>>
    /\ UNCHANGED auth

\* ----------------------------------------------------- scan route (POST)
Engines == {"clamav", "virustotal", "yara", "heuristic"}

\* How an engine can behave on one dispatch. The ClamAV client is configured
\* with a 30 s timeout; the VirusTotal fetch has none, so an unanswered
\* request never settles; YARA and the heuristic are local calls.
EngineOutcomes(e) ==
    CASE e = "clamav"     -> {"positive", "negative", "failed", "timeout"}
      [] e = "virustotal" -> {"positive", "negative", "failed", "unresponsive"}
      [] OTHER            -> {"positive", "negative", "failed"}

OutcomeVectors == {v \in [Engines -> {"positive", "negative", "failed", "timeout", "unresponsive"}] :
                       \A e \in Engines : v[e] \in EngineOutcomes(e)}

AllSame(o) == [e \in Engines |-> o]

\* The behaviours the pipeline specification draws from.
PipelineVectors ==
    { AllSame("negative"),
      AllSame("failed"),
      [AllSame("negative") EXCEPT !["clamav"] = "positive"],
      [AllSame("failed") EXCEPT !["heuristic"] = "positive"],
      [AllSame("negative") EXCEPT !["virustotal"] = "unresponsive"] }

\* What each engine function returns: every one catches its own errors and
\* returns a negative result carrying the message.
ScanWithClamAV(o) ==
    IF o = "positive" THEN [is_infected |-> TRUE, viruses |-> <<"Eicar-Test">>, error |-> Null]
    ELSE IF o = "negative" THEN [is_infected |-> FALSE, viruses |-> <<>>, error |-> Null]
    ELSE [is_infected |-> FALSE, viruses |-> <<>>, error |-> o]

ScanWithVirusTotal(o) ==
    IF o = "positive" THEN [positives |-> 3, total |-> 70, error |-> Null]
    ELSE IF o = "negative" THEN [positives |-> 0, total |-> 70, error |-> Null]
    ELSE [positives |-> 0, total |-> 0, error |-> o]

ScanWithYARA(o) ==
    IF o = "positive" THEN [matches |-> <<"Suspicious_APK">>, error |-> Null]
    ELSE IF o = "negative" THEN [matches |-> <<>>, error |-> Null]
    ELSE [matches |-> <<>>, error |-> o]

HeuristicAnalysis(o) ==
    IF o = "positive" THEN [suspicious |-> TRUE, reasons |-> <<"Debug mode enabled">>, error |-> Null]
    ELSE IF o = "negative" THEN [suspicious |-> FALSE, reasons |-> <<>>, error |-> Null]
    ELSE [suspicious |-> FALSE, reasons |-> <<>>, error |-> o]

\* Promise.allSettled over the four calls, once every one has settled.
AllSettled(v) ==
    [clamav     |-> [status |-> "fulfilled", value |-> ScanWithClamAV(v["clamav"])],
     virustotal |-> [status |-> "fulfilled", value |-> ScanWithVirusTotal(v["virustotal"])],
     yara       |-> [status |-> "fulfilled", value |-> ScanWithYARA(v["yara"])],
     heuristic  |-> [status |-> "fulfilled", value |-> HeuristicAnalysis(v["heuristic"])]]

\* results: an option per engine (<<value>>, or <<>> for null).
CompileResults(settled) ==
    [e \in Engines |-> IF settled[e].status = "fulfilled" THEN <<settled[e].value>> ELSE <<>>]

\* The heuristic engine's finding left out of the threats.
ThreatsOfWithoutHeuristic(results) ==
    (IF results["clamav"] # <<>> /\ results["clamav"][1].is_infected
     THEN << <<"ClamAV", results["clamav"][1].viruses>> >> ELSE <<>>)
    \o (IF results["virustotal"] # <<>> /\ results["virustotal"][1].positives > 0
        THEN << <<"VirusTotal", results["virustotal"][1].positives,
                  results["virustotal"][1].total>> >> ELSE <<>>)
    \o (IF results["yara"] # <<>> /\ Len(results["yara"][1].matches) > 0
        THEN << <<"YARA", results["yara"][1].matches>> >> ELSE <<>>)

\* The threats cut to the first engine that has one.
ThreatsOfFirstOnly(results) ==
    IF results["clamav"] # <<>> /\ results["clamav"][1].is_infected
    THEN << <<"ClamAV", results["clamav"][1].viruses>> >>
    ELSE IF results["virustotal"] # <<>> /\ results["virustotal"][1].positives > 0
    THEN << <<"VirusTotal", results["virustotal"][1].positives,
              results["virustotal"][1].total>> >>
    ELSE IF results["yara"] # <<>> /\ Len(results["yara"][1].matches) > 0
    THEN << <<"YARA", results["yara"][1].matches>> >>
    ELSE IF results["heuristic"] # <<>> /\ results["heuristic"][1].suspicious
    THEN << <<"Heuristic", results["heuristic"][1].reasons>> >>
    ELSE <<>>

ThreatsOf(results) ==
    (IF results["clamav"] # <<>> /\ results["clamav"][1].is_infected
     THEN << <<"ClamAV", results["clamav"][1].viruses>> >> ELSE <<>>)
    \o (IF results["virustotal"] # <<>> /\ results["virustotal"][1].positives > 0
        THEN << <<"VirusTotal", results["virustotal"][1].positives,
                  results["virustotal"][1].total>> >> ELSE <<>>)
    \o (IF results["yara"] # <<>> /\ Len(results["yara"][1].matches) > 0
        THEN << <<"YARA", results["yara"][1].matches>> >> ELSE <<>>)
    \o (IF results["heuristic"] # <<>> /\ results["heuristic"][1].suspicious
        THEN << <<"Heuristic", results["heuristic"][1].reasons>> >> ELSE <<>>)

StatusOf(threats) == IF Len(threats) > 0 THEN "malicious" ELSE "clean"

\* An update that writes the verdict and leaves the stored results and
\* threats to a later statement.
ScanUpdateRowVerdictOnly(row, results, threats, status) ==
    [row EXCEPT !.verified = (status = "clean"),
                !.status = status]

\* The fields the scan route's update statement writes.
\* verified written as true whatever the verdict.
ScanUpdateRowAlwaysVerified(row, results, threats, status) ==
    [row EXCEPT !.verified = TRUE,
                !.scan_results = <<results>>,
                !.threats = IF Len(threats) > 0 THEN <<threats>> ELSE <<>>,
                !.status = status]

ScanUpdateRow(row, results, threats, status) ==
    [row EXCEPT !.verified = (status = "clean"),
                !.scan_results = <<results>>,
                !.threats = IF Len(threats) > 0 THEN <<threats>> ELSE <<>>,
                !.status = status]

EndRun(r, code) == run' = [run EXCEPT ![r].pc = "done", ![r].resp = code]

\* A scan request other than the one the upload triggers: a redelivery, or a
\* client posting to the route. It names rows of the apps table.
ScanRequest(appId, hashRow, urlRow) ==
    /\ Received < MaxRequests
    /\ appId \in 1..Len(apps) /\ hashRow \in 1..Len(apps) /\ urlRow \in 1..Len(apps)
    /\ nextRun' = nextRun + 1
    /\ run' = [run EXCEPT ![nextRun + 1] =
           NewRun(appId, apps[hashRow].hash, apps[urlRow].download_url)]
    /\ UNCHANGED <<stores, up, inst>>
    /\ UNCHANGED auth

\* fetch(url) and response.buffer(); the four engines are dispatched as soon
\* as the bytes are there.
ScanDownload(r, ok) ==
    /\ run[r].pc = "download"
    /\ IF ok
       THEN run' = [run EXCEPT ![r].pc = "await",
                               ![r].buffer = IF KeyOfUrl(run[r].url) \in DOMAIN s3
                                             THEN s3[KeyOfUrl(run[r].url)]
                                             ELSE "NoSuchKey"]
       ELSE EndRun(r, 500)
    /\ UNCHANGED <<stores, up, nextRun, inst>>
    /\ UNCHANGED auth

\* The join: every engine has settled, the results are compiled and the
\* threats collected. With an engine that never settles the join never
\* happens.
ScanSettle(r, v) ==
    /\ run[r].pc = "await"
    /\ IF \E e \in Engines : v[e] = "unresponsive"
       THEN run' = [run EXCEPT ![r].pc = "hung", ![r].outcome = v]
       ELSE run' = [run EXCEPT ![r].pc = "update", ![r].outcome = v,
                                ![r].results = CompileResults(AllSettled(v)),
                                ![r].threats = ThreatsOf(CompileResults(AllSettled(v))),
                                ![r].status =
                                    StatusOf(ThreatsOf(CompileResults(AllSettled(v))))]
    /\ UNCHANGED <<stores, up, nextRun, inst>>
    /\ UNCHANGED auth

\* The update followed by the threat log whatever the verdict.
ScanUpdateAlwaysLogging(r) ==
    /\ run[r].pc = "update"
    /\ apps' = [i \in 1..Len(apps) |->
                   IF apps[i].id = run[r].appId
                   THEN ScanUpdateRow(apps[i], run[r].results, run[r].threats,
                                      run[r].status)
                   ELSE apps[i]]
    /\ run' = [run EXCEPT ![r].pc = "log"]
    /\ UNCHANGED <<s3, threat_logs, admin_notifications, installations, shortcuts,
                   up, nextRun, inst>>
    /\ UNCHANGED auth

\* The value engine e's function returns on outcome o.
EngineValue(e, o) ==
    CASE e = "clamav"     -> ScanWithClamAV(o)
      [] e = "virustotal" -> ScanWithVirusTotal(o)
      [] e = "yara"       -> ScanWithYARA(o)
      [] OTHER            -> HeuristicAnalysis(o)

\* A join that keeps the value of the first promise to settle and nothing of
\* the others.
EngineSettleFirstOnly(r, e, o) ==
    /\ run[r].pc = "await"
    /\ e \notin DOMAIN run[r].outcome
    /\ o \in EngineOutcomes(e) \ {"unresponsive"}
    /\ run' = [run EXCEPT ![r].outcome = (e :> o) @@ @,
                            ![r].order = Append(@, e),
                            ![r].results = (e :> IF run[r].order = <<>>
                                                 THEN <<EngineValue(e, o)>> ELSE <<>>) @@ @]
    /\ UNCHANGED <<stores, up, nextRun, inst>>
    /\ UNCHANGED auth

\* One engine's promise settles: Promise.allSettled puts its value at the
\* engine's own position, whichever engines settled before it. An engine
\* that stays silent takes no such step.
EngineSettle(r, e, o) ==
    /\ run[r].pc = "await"
    /\ e \notin DOMAIN run[r].outcome
    /\ o \in EngineOutcomes(e) \ {"unresponsive"}
    /\ run' = [run EXCEPT ![r].outcome = (e :> o) @@ @,
                            ![r].order = Append(@, e),
                            ![r].results = (e :> <<EngineValue(e, o)>>) @@ @]
    /\ UNCHANGED <<stores, up, nextRun, inst>>
    /\ UNCHANGED auth

\* Every promise has settled: the threats are collected and the status
\* decided.
ScanJoin(r) ==
    /\ run[r].pc = "await"
    /\ DOMAIN run[r].results = Engines
    /\ run' = [run EXCEPT ![r].pc = "update",
                            ![r].threats = ThreatsOf(run[r].results),
                            ![r].status = StatusOf(ThreatsOf(run[r].results))]
    /\ UNCHANGED <<stores, up, nextRun, inst>>
    /\ UNCHANGED auth

\* supabase.from('apps').update({...}).eq('id', appId)
ScanUpdate(r) ==
    /\ run[r].pc = "update"
    /\ apps' = [i \in 1..Len(apps) |->
                   IF apps[i].id = run[r].appId
                   THEN ScanUpdateRow(apps[i], run[r].results, run[r].threats,
                                      run[r].status)
                   ELSE apps[i]]
    /\ IF run[r].status = "malicious"
       THEN run' = [run EXCEPT ![r].pc = "log"]
       ELSE EndRun(r, 200)
    /\ UNCHANGED <<s3, threat_logs, admin_notifications, installations, shortcuts,
                   up, nextRun, inst>>
    /\ UNCHANGED auth

ThreatLogRow(r) ==
    [app_id |-> run[r].appId, file_hash |-> run[r].fileHash,
     threats |-> run[r].threats, scan_results |-> run[r].results]

\* An upsert keyed by app_id: the package's earlier row is replaced.
UpsertThreatLog(rows, row) ==
    Append(SelectSeq(rows, LAMBDA x : x.app_id # row.app_id), row)

\* supabase.from('threat_logs').insert(row)
InsertThreatLog(rows, row) == Append(rows, row)

ScanLog(r) ==
    /\ run[r].pc = "log"
    /\ threat_logs' = InsertThreatLog(threat_logs, ThreatLogRow(r))
    /\ run' = [run EXCEPT ![r].pc = "notify"]
    /\ UNCHANGED <<apps, s3, admin_notifications, installations, shortcuts,
                   up, nextRun, inst>>
    /\ UNCHANGED auth

\* A notification step that withdraws the run's threat log row when the
\* notification cannot be stored.
ScanNotifyUndoingLog(r, ok) ==
    /\ run[r].pc = "notify"
    /\ admin_notifications' =
           IF ok THEN Append(admin_notifications,
                             [app_id |-> run[r].appId, threats |-> run[r].threats])
           ELSE admin_notifications
    /\ threat_logs' =
           IF ok THEN threat_logs
           ELSE SelectSeq(threat_logs, LAMBDA x : x # ThreatLogRow(r))
    /\ EndRun(r, IF ok THEN 200 ELSE 500)
    /\ UNCHANGED <<apps, s3, installations, shortcuts, up, nextRun, inst>>
    /\ UNCHANGED auth

\* notifyAdmin: the insert either lands or fails; supabase-js reports a
\* failure in its return value, which notifyAdmin does not read.
ScanNotify(r, ok) ==
    /\ run[r].pc = "notify"
    /\ admin_notifications' =
           IF ok THEN Append(admin_notifications,
                             [app_id |-> run[r].appId, threats |-> run[r].threats])
           ELSE admin_notifications
    /\ EndRun(r, 200)
    /\ UNCHANGED <<apps, s3, threat_logs, installations, shortcuts,
                   up, nextRun, inst>>
    /\ UNCHANGED auth

\* -------------------------------------------------- install route (POST)
EndInstall(n, code) == inst' = [inst EXCEPT ![n].pc = "done", ![n].resp = code]

InstallStart(n, appId, userId) ==
    /\ inst[n].pc = "idle"
    /\ \A m \in Installs : m < n => inst[m].pc # "idle"
    /\ Received < MaxRequests
    /\ inst' = [inst EXCEPT ![n].pc = "get", ![n].appId = appId, ![n].userId = userId]
    /\ UNCHANGED <<stores, up, run, nextRun>>
    /\ UNCHANGED auth

\* select('*').eq('id', appId).single(), and the verified check on the row
\* as read.
\* The row read with no look at its verified flag.
InstallGetUnchecked(n) ==
    /\ inst[n].pc = "get"
    /\ IF inst[n].appId \notin 1..Len(apps) THEN EndInstall(n, 404)
       ELSE inst' = [inst EXCEPT ![n].pc = "fetch", ![n].app = <<apps[inst[n].appId]>>]
    /\ UNCHANGED <<stores, up, run, nextRun>>
    /\ UNCHANGED auth

InstallGet(n) ==
    /\ inst[n].pc = "get"
    /\ IF inst[n].appId \notin 1..Len(apps) THEN EndInstall(n, 404)
       ELSE IF ~apps[inst[n].appId].verified THEN EndInstall(n, 403)
       ELSE inst' = [inst EXCEPT ![n].pc = "fetch", ![n].app = <<apps[inst[n].appId]>>]
    /\ UNCHANGED <<stores, up, run, nextRun>>
    /\ UNCHANGED auth

\* GetObject on the key cut out of download_url, then the extraction into
\* the installation directory; either can throw.
InstallFetch(n, ok) ==
    /\ inst[n].pc = "fetch"
    /\ IF ok /\ KeyOfUrl(inst[n].app[1].download_url) \in DOMAIN s3
       THEN inst' = [inst EXCEPT ![n].pc = "insert"]
       ELSE EndInstall(n, 500)
    /\ UNCHANGED <<stores, up, run, nextRun>>
    /\ UNCHANGED auth

InstallInsert(n, ok) ==
    /\ inst[n].pc = "insert"
    /\ IF ok
       THEN /\ installations' = Append(installations,
                   [user_id |-> inst[n].userId, app_id |-> inst[n].appId,
                    status |-> "installed"])
            /\ inst' = [inst EXCEPT ![n].pc = "count"]
       ELSE /\ installations' = installations
            /\ EndInstall(n, 500)
    /\ UNCHANGED <<apps, s3, threat_logs, admin_notifications, shortcuts, up, run, nextRun>>
    /\ UNCHANGED auth

\* The counter update also marking the package as installed.
InstallCountMarkingInstalled(n) ==
    /\ inst[n].pc = "count"
    /\ apps' = [i \in 1..Len(apps) |->
                   IF apps[i].id = inst[n].appId
                   THEN [apps[i] EXCEPT !.downloads = inst[n].app[1].downloads + 1,
                                        !.status = "installed"]
                   ELSE apps[i]]
    /\ inst' = [inst EXCEPT ![n].pc = "shortcut"]
    /\ UNCHANGED <<s3, threat_logs, admin_notifications, installations, shortcuts,
                   up, run, nextRun>>
    /\ UNCHANGED auth

\* update({ downloads: (app.downloads || 0) + 1 }).eq('id', appId), from the
\* row as it was read.
InstallCount(n) ==
    /\ inst[n].pc = "count"
    /\ apps' = [i \in 1..Len(apps) |->
                   IF apps[i].id = inst[n].appId
                   THEN [apps[i] EXCEPT !.downloads = inst[n].app[1].downloads + 1]
                   ELSE apps[i]]
    /\ inst' = [inst EXCEPT ![n].pc = "shortcut"]
    /\ UNCHANGED <<s3, threat_logs, admin_notifications, installations, shortcuts,
                   up, run, nextRun>>
    /\ UNCHANGED auth

InstallShortcut(n) ==
    /\ inst[n].pc = "shortcut"
    /\ shortcuts' = Append(shortcuts, [user_id |-> inst[n].userId, app_id |-> inst[n].appId])
    /\ EndInstall(n, 200)
    /\ UNCHANGED <<apps, s3, threat_logs, admin_notifications, installations,
                   up, run, nextRun>>
    /\ UNCHANGED auth

Next ==
    \/ \E u \in Uploads, f \in Files \cup {NoFile}, m \in {"ok", "missing", "malformed"} :
           IngestStart(u, f, m)
    \/ \E u \in Uploads, ok \in BOOLEAN : IngestPut(u, ok)
    \/ \E u \in Uploads, ok \in BOOLEAN : IngestIcon(u, ok)
    \/ \E u \in Uploads, ok \in BOOLEAN : IngestShot(u, ok)
    \/ \E u \in Uploads, ok \in BOOLEAN : IngestInsert(u, ok)
    \/ \E u \in Uploads, o \in {"scan", "lost", "error"} : IngestTrigger(u, o)
    \/ \E a, h, w \in Uploads : ScanRequest(a, h, w)
    \/ \E r \in Runs, ok \in BOOLEAN : ScanDownload(r, ok)
    \/ \E r \in Runs, v \in PipelineVectors : ScanSettle(r, v)
    \/ \E r \in Runs : ScanUpdate(r)
    \/ \E r \in Runs : ScanLog(r)
    \/ \E r \in Runs, ok \in BOOLEAN : ScanNotify(r, ok)
    \/ \E n \in Installs, a \in Uploads : InstallStart(n, a, 1)
    \/ \E n \in Installs : InstallGet(n)
    \/ \E n \in Installs, ok \in BOOLEAN : InstallFetch(n, ok)
    \/ \E n \in Installs, ok \in BOOLEAN : InstallInsert(n, ok)
    \/ \E n \in Installs : InstallCount(n)
    \/ \E n \in Installs : InstallShortcut(n)

Spec == Init /\ [][Next]_vars

\* ------------------------------------------- one scan request, seeded
\* The state an accepted upload of clean_zip leaves behind, with the scan
\* request its trigger delivers: the scan route alone, over every
\* combination of engine behaviours.
SeedFile == [bytes |-> "clean_zip", ext |-> "zip"]

SeedUpload ==
    [IdleUpload EXCEPT !.pc = "done", !.file = SeedFile, !.fileHash = FileHash(SeedFile),
                       !.shot = 1, !.appId = 1, !.resp = 200]

SeedRow == NewAppRow(FileHash(SeedFile), SeedFile.ext, 1, 1)

SeedBucket ==
    (S3Key(FileHash(SeedFile), SeedFile.ext) :> SeedFile.bytes)
    @@ (IconKey(FileHash(SeedFile)) :> <<"icon", SeedFile.bytes>>)
    @@ (ScreenshotKey(FileHash(SeedFile), 0)
            :> <<"shot", SeedFile.bytes, ScreenshotFiles(SeedFile.bytes)[1]>>)

ScanInit ==
    /\ apps = <<SeedRow>>
    /\ s3 = SeedBucket
    /\ threat_logs = <<>>
    /\ admin_notifications = <<>>
    /\ installations = <<>>
    /\ shortcuts = <<>>
    /\ up = [u \in Uploads |-> IF u = 1 THEN SeedUpload ELSE IdleUpload]
    /\ run = [r \in Runs |-> IF r = 1
                             THEN NewRun(1, SeedRow.hash, SeedRow.download_url)
                             ELSE IdleRun]
    /\ nextRun = 1
    /\ inst = [n \in Installs |-> IdleInstall]
    /\ LoginAtRest

\* The steps of scan request r.
ScanStep(r) ==
    \/ \E ok \in BOOLEAN : ScanDownload(r, ok)
    \/ \E v \in OutcomeVectors : ScanSettle(r, v)
    \/ ScanUpdate(r)
    \/ ScanLog(r)
    \/ \E ok \in BOOLEAN : ScanNotify(r, ok)

ScanNext ==
    \/ \E r \in Runs, ok \in BOOLEAN : ScanDownload(r, ok)
    \/ \E r \in Runs, v \in OutcomeVectors : ScanSettle(r, v)
    \/ \E r \in Runs : ScanUpdate(r)
    \/ \E r \in Runs : ScanLog(r)
    \/ \E r \in Runs, ok \in BOOLEAN : ScanNotify(r, ok)

ScanSpec == ScanInit /\ [][ScanNext]_vars

\* ------------------------------------------------- the upload route alone
\* The upload requests by themselves, interleaving at their awaits, over the
\* wider set of files that holds an oversized archive. The scan requests
\* their triggers deliver are received and stay unserved.
BombFile == [bytes |-> "bomb_zip", ext |-> "zip"]

IngestFiles == Files \cup {BombFile}

IngestNext ==
    \/ \E u \in Uploads, f \in IngestFiles \cup {NoFile},
            m \in {"ok", "missing", "malformed"} : IngestStart(u, f, m)
    \/ \E u \in Uploads, ok \in BOOLEAN : IngestPut(u, ok)
    \/ \E u \in Uploads, ok \in BOOLEAN : IngestIcon(u, ok)
    \/ \E u \in Uploads, ok \in BOOLEAN : IngestShot(u, ok)
    \/ \E u \in Uploads, ok \in BOOLEAN : IngestInsert(u, ok)
    \/ \E u \in Uploads, o \in {"scan", "lost", "error"} : IngestTrigger(u, o)

IngestSpec == Init /\ [][IngestNext]_vars

\* -------------------------------------- uploads of archives of screenshots
\* The upload route over an archive with seven screenshot entries among
\* other entries, and one with a single screenshot.
ScreenshotUploadFiles == { [bytes |-> "shots_zip", ext |-> "zip"],
                           [bytes |-> "clean_zip", ext |-> "zip"] }

ScreenshotNext ==
    \/ \E u \in Uploads, f \in ScreenshotUploadFiles : IngestStart(u, f, "ok")
    \/ \E u \in Uploads, ok \in BOOLEAN : IngestPut(u, ok)
    \/ \E u \in Uploads, ok \in BOOLEAN : IngestIcon(u, ok)
    \/ \E u \in Uploads, ok \in BOOLEAN : IngestShot(u, ok)
    \/ \E u \in Uploads, ok \in BOOLEAN : IngestInsert(u, ok)
    \/ \E u \in Uploads : IngestTrigger(u, "lost")

ScreenshotSpec == Init /\ [][ScreenshotNext]_vars

\* ------------------------------------------------ the heuristic engine
\* A downloaded buffer as heuristicAnalysis sees it: whether JSZip opens
\* it, its entry names, what reading the manifest entry and the certificate
\* entry gives, whether known_certs.json loads, and its bytes as a uniform
\* histogram (distinct byte values, each occurring each times).
HeuristicNames ==
    { << >>,
      << <<"manifest", ".", "json">>, <<"index", ".", "html">> >>,
      << <<"AndroidManifest", ".", "xml">>, <<"lib", "/", "native", ".", "so">>,
         <<"META-INF", "/", "CERT", ".", "RSA">> >>,
      << <<"manifest", ".", "json">>, <<"run", ".", "sh">>, <<"trojan", ".", "txt">>,
         <<"setup", ".", "EXE">> >> }

Buffers ==
    [zip : BOOLEAN,
     names : HeuristicNames,
     manifestText : {"plain", "debuggable", "manyperms", "unreadable"},
     certRead : {"unknown", "known_bad", "unreadable"},
     known_certs : {"loaded", "missing"},
     distinct : {0, 1, 16, 256},
     each : {1}]

Includes(name, word) == \E i \in 1..Len(name) : name[i] = word

EndsWith(name, suffixes) ==
    /\ Len(name) >= 2
    /\ name[Len(name) - 1] = "."
    /\ name[Len(name)] \in suffixes

EndsWithIgnoringCase(name, suffixes) ==
    /\ Len(name) >= 2
    /\ name[Len(name) - 1] = "."
    /\ Lower(name[Len(name)]) \in suffixes

\* The filter of step 1.
IsSuspiciousName(name) ==
    \/ \E i \in 1..Len(name) :
           Lower(name[i]) \in {"malware", "virus", "exploit", "backdoor", "trojan",
                               "rat", "keylogger"}
    \/ EndsWithIgnoringCase(name, {"so", "dex", "apk", "jar"}) /\ Includes(name, "lib")
    \/ Includes(name, "META-INF") /\ EndsWith(name, {"RSA", "DSA", "SF"})

\* The test of step 2.
IsEmbeddedExecutable(name) == EndsWithIgnoringCase(name, {"exe", "dll", "bat", "sh"})

HasEntry(names, name) == \E j \in 1..Len(names) : names[j] = name

HasManifest(names) ==
    \/ HasEntry(names, <<"AndroidManifest", ".", "xml">>)
    \/ HasEntry(names, <<"manifest", ".", "json">>)

HasCert(names) ==
    \/ HasEntry(names, <<"META-INF", "/", "CERT", ".", "RSA">>)
    \/ HasEntry(names, <<"META-INF", "/", "CERT", ".", "DSA">>)

RECURSIVE Log2(_)
Log2(k) == IF k <= 1 THEN 0 ELSE 1 + Log2(k \div 2)

\* The entropy taken from the length of the buffer.
calculateEntropyOfLength(buffer) ==
    IF buffer.distinct * buffer.each = 0 THEN 0
    ELSE 100 * Log2(buffer.distinct * buffer.each)

\* calculateEntropy, in hundredths of a bit: over a uniform histogram of k
\* distinct values the sum of -p log2 p is log2 k; an empty buffer leaves
\* the sum at 0.
calculateEntropy(buffer) ==
    IF buffer.distinct * buffer.each = 0 THEN 0 ELSE 100 * Log2(buffer.distinct)

EntropyThreshold == 750

\* The indicators in the order the try block pushes them.
Indicators(buffer) ==
    (IF Len(SelectSeq(buffer.names, IsSuspiciousName)) > 0
     THEN << <<"Suspicious files", SelectSeq(buffer.names, IsSuspiciousName)>> >>
     ELSE <<>>)
    \o [k \in 1..Len(SelectSeq(buffer.names, IsEmbeddedExecutable)) |->
           <<"Embedded executable", SelectSeq(buffer.names, IsEmbeddedExecutable)[k]>>]
    \o (IF HasManifest(buffer.names) /\ buffer.manifestText = "manyperms"
        THEN << <<"Excessive permissions">> >> ELSE <<>>)
    \o (IF HasManifest(buffer.names) /\ buffer.manifestText = "debuggable"
        THEN << <<"Debug mode enabled">> >> ELSE <<>>)
    \o (IF calculateEntropy(buffer) > EntropyThreshold
        THEN << <<"High entropy detected", calculateEntropy(buffer)>> >> ELSE <<>>)
    \o (IF HasCert(buffer.names) /\ buffer.certRead = "known_bad"
        THEN << <<"Known malicious certificate">> >> ELSE <<>>)

\* The try block: the first statement that throws, if one does.
HeuristicTry(buffer) ==
    IF ~buffer.zip
    THEN [thrown |-> TRUE, error |-> "is this a zip file ?", reasons |-> <<>>]
    ELSE IF HasManifest(buffer.names) /\ buffer.manifestText = "unreadable"
    THEN [thrown |-> TRUE, error |-> "Corrupted zip", reasons |-> <<>>]
    ELSE IF HasCert(buffer.names) /\ buffer.certRead = "unreadable"
    THEN [thrown |-> TRUE, error |-> "Corrupted zip", reasons |-> <<>>]
    ELSE IF HasCert(buffer.names) /\ buffer.known_certs = "missing"
    THEN [thrown |-> TRUE, error |-> "Cannot find module", reasons |-> <<>>]
    ELSE [thrown |-> FALSE, error |-> Null, reasons |-> Indicators(buffer)]

\* The function with no catch around its body.
heuristicAnalysisUncaught(buffer) ==
    IF HeuristicTry(buffer).thrown
    THEN [status |-> "rejected",
          value |-> [suspicious |-> FALSE, reasons |-> <<>>, entropy |-> <<>>,
                     error |-> HeuristicTry(buffer).error]]
    ELSE [status |-> "fulfilled",
          value |-> [suspicious |-> Len(HeuristicTry(buffer).reasons) > 0,
                     reasons |-> HeuristicTry(buffer).reasons,
                     entropy |-> <<calculateEntropy(buffer)>>, error |-> Null]]

\* heuristicAnalysis(buffer) as its promise settles.
heuristicAnalysis(buffer) ==
    IF HeuristicTry(buffer).thrown
    THEN [status |-> "fulfilled",
          value |-> [suspicious |-> FALSE, reasons |-> <<>>, entropy |-> <<>>,
                     error |-> HeuristicTry(buffer).error]]
    ELSE [status |-> "fulfilled",
          value |-> [suspicious |-> Len(HeuristicTry(buffer).reasons) > 0,
                     reasons |-> HeuristicTry(buffer).reasons,
                     entropy |-> <<calculateEntropy(buffer)>>, error |-> Null]]

\* The heuristic engine of scan request r settles.
HeuristicRun(r) ==
    /\ run[r].pc = "await"
    /\ "heuristic" \notin DOMAIN run[r].results
    /\ run' = [run EXCEPT ![r].order = Append(@, "heuristic"),
                            ![r].results = ("heuristic" :> heuristicAnalysis(run[r].buffer)) @@ @]
    /\ UNCHANGED <<stores, up, nextRun, inst>>
    /\ UNCHANGED auth

\* A scan request posted for the seeded row that names a url of its own,
\* with its engines dispatched, over every buffer the download of that url
\* can have brought.
HeuristicInit ==
    /\ apps = <<SeedRow>>
    /\ s3 = SeedBucket
    /\ threat_logs = <<>>
    /\ admin_notifications = <<>>
    /\ installations = <<>>
    /\ shortcuts = <<>>
    /\ up = [u \in Uploads |-> IF u = 1 THEN SeedUpload ELSE IdleUpload]
    /\ \E b \in Buffers :
           run = [r \in Runs |-> IF r = 1
                                 THEN [NewRun(1, SeedRow.hash, UrlOf(<<"posted", b>>))
                                           EXCEPT !.pc = "await", !.buffer = b]
                                 ELSE IdleRun]
    /\ nextRun = 1
    /\ inst = [n \in Installs |-> IdleInstall]
    /\ LoginAtRest

HeuristicNext == \E r \in Runs : HeuristicRun(r)

HeuristicSpec == HeuristicInit /\ [][HeuristicNext]_vars

\* ------------------------------------------ scan requests over two rows
\* Two accepted uploads, of different archives, lie behind; scan requests
\* then name a row, a hash and a download location, each of either row.
OtherFile == [bytes |-> "shots_zip", ext |-> "zip"]

OtherUpload ==
    [IdleUpload EXCEPT !.pc = "done", !.file = OtherFile, !.fileHash = FileHash(OtherFile),
                       !.shot = MaxScreenshots, !.appId = 2, !.resp = 200]

OtherRow == NewAppRow(FileHash(OtherFile), OtherFile.ext, 2, MaxScreenshots)

OtherBucket ==
    (S3Key(FileHash(OtherFile), OtherFile.ext) :> OtherFile.bytes)
    @@ (IconKey(FileHash(OtherFile)) :> <<"icon", OtherFile.bytes>>)
    @@ [k \in {ScreenshotKey(FileHash(OtherFile), j) : j \in 0..(MaxScreenshots - 1)} |->
           <<"shot", OtherFile.bytes,
             ScreenshotFiles(OtherFile.bytes)[
                 (CHOOSE j \in 0..(MaxScreenshots - 1) :
                      ScreenshotKey(FileHash(OtherFile), j) = k) + 1]>>]

PairInit ==
    /\ apps = <<SeedRow, OtherRow>>
    /\ s3 = SeedBucket @@ OtherBucket
    /\ threat_logs = <<>>
    /\ admin_notifications = <<>>
    /\ installations = <<>>
    /\ shortcuts = <<>>
    /\ up = [u \in Uploads |-> IF u = 1 THEN SeedUpload
                               ELSE IF u = 2 THEN OtherUpload ELSE IdleUpload]
    /\ run = [r \in Runs |-> IdleRun]
    /\ nextRun = 0
    /\ inst = [n \in Installs |-> IdleInstall]
    /\ LoginAtRest

PairNext ==
    \/ \E a, h, w \in Uploads : ScanRequest(a, h, w)
    \/ \E r \in Runs, ok \in BOOLEAN : ScanDownload(r, ok)
    \/ \E r \in Runs, v \in PipelineVectors : ScanSettle(r, v)
    \/ \E r \in Runs : ScanUpdate(r)
    \/ \E r \in Runs : ScanLog(r)
    \/ \E r \in Runs, ok \in BOOLEAN : ScanNotify(r, ok)

PairSpec == PairInit /\ [][PairNext]_vars

\* ------------------------------------------- the entropy of two buffers
\* Two scan requests whose downloads brought archives with no entries and
\* any bytes: empty, all of one value, or spread over several values.
EntropyBuffers ==
    [zip : {TRUE}, names : {<< >>}, manifestText : {"plain"}, certRead : {"unknown"},
     known_certs : {"loaded"}, distinct : {0, 1, 2, 256}, each : {0, 1, 2, 5}]

EntropyInit ==
    /\ apps = <<SeedRow>>
    /\ s3 = SeedBucket
    /\ threat_logs = <<>>
    /\ admin_notifications = <<>>
    /\ installations = <<>>
    /\ shortcuts = <<>>
    /\ up = [u \in Uploads |-> IF u = 1 THEN SeedUpload ELSE IdleUpload]
    /\ \E b, c \in EntropyBuffers :
           run = [r \in Runs |->
                     IF r = 1
                     THEN [NewRun(1, SeedRow.hash, UrlOf(<<"posted", b>>))
                               EXCEPT !.pc = "await", !.buffer = b]
                     ELSE IF r = 2
                     THEN [NewRun(1, SeedRow.hash, UrlOf(<<"posted", c>>))
                               EXCEPT !.pc = "await", !.buffer = c]
                     ELSE IdleRun]
    /\ nextRun = 2
    /\ inst = [n \in Installs |-> IdleInstall]
    /\ LoginAtRest

EntropySpec == EntropyInit /\ [][HeuristicNext]_vars

\* --------------------------------------- uploads of denylisted archives
\* The upload route over archives whose entry names carry the denylisted
\* names in upper, lower and mixed case.
DenylistFiles == { [bytes |-> "clean_zip", ext |-> "zip"],
                   [bytes |-> "junk_zip", ext |-> "zip"],
                   [bytes |-> "junk_lower_zip", ext |-> "zip"],
                   [bytes |-> "upper_exe_zip", ext |-> "zip"] }

DenylistNext ==
    \/ \E u \in Uploads, f \in DenylistFiles : IngestStart(u, f, "ok")
    \/ \E u \in Uploads, ok \in BOOLEAN : IngestPut(u, ok)
    \/ \E u \in Uploads, ok \in BOOLEAN : IngestIcon(u, ok)
    \/ \E u \in Uploads, ok \in BOOLEAN : IngestShot(u, ok)
    \/ \E u \in Uploads, ok \in BOOLEAN : IngestInsert(u, ok)
    \/ \E u \in Uploads, o \in {"scan", "lost", "error"} : IngestTrigger(u, o)

DenylistSpec == Init /\ [][DenylistNext]_vars

\* ------------------------------------ one scan request, engine by engine
\* The scan request of ScanInit with its file downloaded and its four
\* engines dispatched; the engines settle one at a time, in any order.
EngineInit ==
    /\ apps = <<SeedRow>>
    /\ s3 = SeedBucket
    /\ threat_logs = <<>>
    /\ admin_notifications = <<>>
    /\ installations = <<>>
    /\ shortcuts = <<>>
    /\ up = [u \in Uploads |-> IF u = 1 THEN SeedUpload ELSE IdleUpload]
    /\ run = [r \in Runs |-> IF r = 1
                             THEN [NewRun(1, SeedRow.hash, SeedRow.download_url)
                                       EXCEPT !.pc = "await", !.buffer = SeedFile.bytes]
                             ELSE IdleRun]
    /\ nextRun = 1
    /\ inst = [n \in Installs |-> IdleInstall]
    /\ LoginAtRest

EngineNext ==
    \/ \E r \in Runs, e \in Engines, o \in {"positive", "negative", "failed", "timeout"} :
           EngineSettle(r, e, o)
    \/ \E r \in Runs : ScanJoin(r)
    \/ \E r \in Runs : ScanUpdate(r)
    \/ \E r \in Runs : ScanLog(r)
    \/ \E r \in Runs, ok \in BOOLEAN : ScanNotify(r, ok)

EngineSpec == EngineInit /\ [][EngineNext]_vars

\* ------------------------------------- installs and scans of one package
\* The state an accepted upload of clean_zip leaves behind when its request
\* to the scan worker started no scan: the row is not verified. Install
\* requests and scan requests for it follow.
\* The users install requests name.
Users == {1, 2}

InstallInit ==
    /\ apps = <<SeedRow>>
    /\ s3 = SeedBucket
    /\ threat_logs = <<>>
    /\ admin_notifications = <<>>
    /\ installations = <<>>
    /\ shortcuts = <<>>
    /\ up = [u \in Uploads |-> IF u = 1 THEN SeedUpload ELSE IdleUpload]
    /\ run = [r \in Runs |-> IdleRun]
    /\ nextRun = 0
    /\ inst = [n \in Installs |-> IdleInstall]
    /\ LoginAtRest

InstallNext ==
    \/ \E a, h, w \in Uploads : ScanRequest(a, h, w)
    \/ \E r \in Runs, ok \in BOOLEAN : ScanDownload(r, ok)
    \/ \E r \in Runs, v \in PipelineVectors : ScanSettle(r, v)
    \/ \E r \in Runs : ScanUpdate(r)
    \/ \E r \in Runs : ScanLog(r)
    \/ \E r \in Runs, ok \in BOOLEAN : ScanNotify(r, ok)
    \/ \E n \in Installs, a \in Uploads, usr \in Users : InstallStart(n, a, usr)
    \/ \E n \in Installs : InstallGet(n)
    \/ \E n \in Installs, ok \in BOOLEAN : InstallFetch(n, ok)
    \/ \E n \in Installs, ok \in BOOLEAN : InstallInsert(n, ok)
    \/ \E n \in Installs : InstallCount(n)
    \/ \E n \in Installs : InstallShortcut(n)

InstallSpec == InstallInit /\ [][InstallNext]_vars

\* ------------------------------------- installs of a verified package
\* The accepted upload and a scan run that found nothing lie behind: the
\* row is verified. Install requests and further scan requests follow.
ListedRow ==
    ScanUpdateRow(SeedRow, CompileResults(AllSettled(AllSame("negative"))), <<>>, "clean")

ListedInit ==
    /\ apps = <<ListedRow>>
    /\ s3 = SeedBucket
    /\ threat_logs = <<>>
    /\ admin_notifications = <<>>
    /\ installations = <<>>
    /\ shortcuts = <<>>
    /\ up = [u \in Uploads |-> IF u = 1 THEN SeedUpload ELSE IdleUpload]
    /\ run = [r \in Runs |-> IdleRun]
    /\ nextRun = 0
    /\ inst = [n \in Installs |-> IdleInstall]
    /\ LoginAtRest

ListedSpec == ListedInit /\ [][InstallNext]_vars

\* ---------------------------------------------------- login route (POST)
\* points of the rate limiter: requests let through per client address and
\* window of 15 minutes.
RatePoints == 5

\* Failed attempts at which the account is locked.
LockThreshold == 5

\* The 30 minutes of a lock, in quarters of an hour.
LockTicks == 2

\* The clock stops here.
MaxClock == 3

EndLogin(l, code) == login' = [login EXCEPT ![l].pc = "done", ![l].resp = code]

\* select('*').eq('email', email).single(): the row, or nothing.
UserByEmail(email) ==
    IF \E i \in 1..Len(users) : users[i].email = email
    THEN <<users[CHOOSE i \in 1..Len(users) : users[i].email = email]>>
    ELSE <<>>

\* locked_until && new Date(locked_until) > new Date()
IsLocked(user) == user.locked_until # <<>> /\ user.locked_until[1] > now

\* rateLimiter.consume(clientIP), request.json(), the decryption and the
\* length check of the password. All requests come from one address.
LoginStart(l, attempt) ==
    /\ login[l].pc = "idle"
    /\ \A m \in Logins : m < l => login[m].pc # "idle"
    /\ IF rateLimiter >= RatePoints
       THEN /\ rateLimiter' = rateLimiter
            /\ login' = [login EXCEPT ![l].pc = "done", ![l].resp = 429,
                                       ![l].attempt = attempt]
       ELSE /\ rateLimiter' = rateLimiter + 1
            /\ IF attempt.password = "short"
               THEN login' = [login EXCEPT ![l].pc = "done", ![l].resp = 400,
                                           ![l].attempt = attempt]
               ELSE login' = [login EXCEPT ![l].pc = "get", ![l].attempt = attempt]
    /\ UNCHANGED <<stores, up, run, nextRun, inst, users, sessions, now>>

\* The row read and the password compared, with no look at the TOTP code.
LoginGetSkippingTotp(l) ==
    /\ login[l].pc = "get"
    /\ IF UserByEmail(login[l].attempt.email) = <<>>
       THEN EndLogin(l, 401)
       ELSE IF IsLocked(UserByEmail(login[l].attempt.email)[1])
       THEN EndLogin(l, 423)
       ELSE IF login[l].attempt.password # "right"
       THEN login' = [login EXCEPT ![l].pc = "failed",
                                   ![l].user = UserByEmail(login[l].attempt.email)]
       ELSE IF login[l].attempt.biometric = "unknown"
       THEN login' = [login EXCEPT ![l].pc = "done", ![l].resp = 401,
                                   ![l].user = UserByEmail(login[l].attempt.email)]
       ELSE login' = [login EXCEPT ![l].pc = "session",
                                   ![l].user = UserByEmail(login[l].attempt.email)]
    /\ UNCHANGED <<stores, up, run, nextRun, inst, users, sessions, rateLimiter, now>>

\* The row read by email; then, on the row as read: the lock check,
\* bcrypt.compare, the TOTP check where the row enables it, and the lookup
\* of the biometric credential where the request carries one (a table no
\* handler writes).
LoginGet(l) ==
    /\ login[l].pc = "get"
    /\ IF UserByEmail(login[l].attempt.email) = <<>>
       THEN EndLogin(l, 401)
       ELSE IF IsLocked(UserByEmail(login[l].attempt.email)[1])
       THEN EndLogin(l, 423)
       ELSE IF login[l].attempt.password # "right"
       THEN login' = [login EXCEPT ![l].pc = "failed",
                                   ![l].user = UserByEmail(login[l].attempt.email)]
       ELSE IF \/ /\ UserByEmail(login[l].attempt.email)[1].totp_enabled
                    /\ login[l].attempt.totp # "valid"
               \/ login[l].attempt.biometric = "unknown"
       THEN login' = [login EXCEPT ![l].pc = "done", ![l].resp = 401,
                                   ![l].user = UserByEmail(login[l].attempt.email)]
       ELSE login' = [login EXCEPT ![l].pc = "session",
                                   ![l].user = UserByEmail(login[l].attempt.email)]
    /\ UNCHANGED <<stores, up, run, nextRun, inst, users, sessions, rateLimiter, now>>

\* update({failed_attempts: (user.failed_attempts || 0) + 1}).eq('id',
\* user.id), from the row as read; the lock follows at the threshold.
LoginFailed(l) ==
    /\ login[l].pc = "failed"
    /\ users' = [i \in 1..Len(users) |->
                    IF users[i].id = login[l].user[1].id
                    THEN [users[i] EXCEPT !.failed_attempts =
                                              login[l].user[1].failed_attempts + 1]
                    ELSE users[i]]
    /\ IF login[l].user[1].failed_attempts + 1 >= LockThreshold
       THEN login' = [login EXCEPT ![l].pc = "lock"]
       ELSE EndLogin(l, 401)
    /\ UNCHANGED <<stores, up, run, nextRun, inst, sessions, rateLimiter, now>>

\* update({locked_until: now + 30 minutes}).eq('id', user.id)
LoginLock(l) ==
    /\ login[l].pc = "lock"
    /\ users' = [i \in 1..Len(users) |->
                    IF users[i].id = login[l].user[1].id
                    THEN [users[i] EXCEPT !.locked_until = <<now + LockTicks>>]
                    ELSE users[i]]
    /\ EndLogin(l, 401)
    /\ UNCHANGED <<stores, up, run, nextRun, inst, sessions, rateLimiter, now>>

\* jwt.sign, then the sessions insert; the insert's result is not looked
\* at. session_hash is the digest of the request's own random token.
LoginSession(l, ok) ==
    /\ login[l].pc = "session"
    /\ sessions' = IF ok
                   THEN Append(sessions, [user_id |-> login[l].user[1].id,
                                          session_hash |-> <<"sha256", l>>])
                   ELSE sessions
    /\ login' = [login EXCEPT ![l].pc = "reset"]
    /\ UNCHANGED <<stores, up, run, nextRun, inst, users, rateLimiter, now>>

\* update({failed_attempts: 0, locked_until: null}).eq('id', user.id), and
\* the response with the token and the cookies.
LoginReset(l) ==
    /\ login[l].pc = "reset"
    /\ users' = [i \in 1..Len(users) |->
                    IF users[i].id = login[l].user[1].id
                    THEN [users[i] EXCEPT !.failed_attempts = 0, !.locked_until = <<>>]
                    ELSE users[i]]
    /\ login' = [login EXCEPT ![l].pc = "done", ![l].resp = 200, ![l].token = TRUE]
    /\ UNCHANGED <<stores, up, run, nextRun, inst, sessions, rateLimiter, now>>

\* A quarter of an hour passes: the rate limiter's window is over.
Tick ==
    /\ now < MaxClock
    /\ now' = now + 1
    /\ rateLimiter' = 0
    /\ UNCHANGED <<stores, up, run, nextRun, inst, users, sessions, login>>

\* ---------------------------------------- logins to a thrice-failed account
\* Three login requests with a wrong password, one after the other, lie
\* behind: failed_attempts is 3, the account is not locked. The rate
\* limiter holds their three points, or its window is over.
PriorFailures == 3

LoginSeed(failed_attempts) ==
    /\ apps = <<>>
    /\ s3 = <<>>
    /\ threat_logs = <<>>
    /\ admin_notifications = <<>>
    /\ installations = <<>>
    /\ shortcuts = <<>>
    /\ up = [u \in Uploads |-> IdleUpload]
    /\ run = [r \in Runs |-> IdleRun]
    /\ nextRun = 0
    /\ inst = [n \in Installs |-> IdleInstall]
    /\ \E t \in BOOLEAN : users = <<Account(failed_attempts, t)>>
    /\ sessions = <<>>
    /\ rateLimiter \in {0, PriorFailures}
    /\ now = 0
    /\ login = [l \in Logins |-> IdleLogin]

LoginNext ==
    \/ \E l \in Logins, a \in Attempts : LoginStart(l, a)
    \/ \E l \in Logins : LoginGet(l)
    \/ \E l \in Logins : LoginFailed(l)
    \/ \E l \in Logins : LoginLock(l)
    \/ \E l \in Logins, ok \in BOOLEAN : LoginSession(l, ok)
    \/ \E l \in Logins : LoginReset(l)
    \/ Tick

LoginInit == LoginSeed(PriorFailures)

LoginSpec == LoginInit /\ [][LoginNext]_vars

\* The same with one more failure behind: the next wrong password locks
\* the account.
BrinkInit == LoginSeed(LockThreshold - 1)

BrinkSpec == BrinkInit /\ [][LoginNext]_vars

\* ---------------------------------------------------------------- claims
\* The bytes the row's download_url points at.
BlobOf(i) == s3[KeyOfUrl(apps[i].download_url)]

\* Every key of the bucket derived from hash h.
KeysOfHash(h) == {k \in DOMAIN s3 : k[2] = h}

\* C1: an upload received after an upload of the same bytes was answered
\* with success is answered 409 "App already exists" at its duplicate check,
\* and whenever an upload of bytes B has been answered with success exactly
\* one row of apps carries SHA-256(B).
C1_SecondIngestRejected ==
    /\ \A u \in Uploads :
           up[u].after => /\ up[u].pc = "done"
                          /\ up[u].resp = 409
                          /\ up[u].error = "App already exists"
    /\ \A u \in Uploads :
           up[u].pc = "done" /\ up[u].resp = 200
               => Cardinality(RowsWithHash(Sha256(up[u].file.bytes))) = 1

C1_Witness ==
    \E u \in Uploads : up[u].after /\ up[u].pc = "done" /\ up[u].resp = 409

\* C2: no two rows of apps carry the same hash, nor point at blobs of the
\* same bytes; two uploads of the same bytes that both passed the duplicate
\* check end with one row, the second insert being refused.
C2_UniqueContentHash ==
    \A i, j \in 1..Len(apps) :
        i # j => /\ apps[i].hash # apps[j].hash
                 /\ Sha256(BlobOf(i)) # Sha256(BlobOf(j))

C2_Witness ==
    \E u, v \in Uploads :
        /\ u # v
        /\ up[u].file.bytes = up[v].file.bytes
        /\ up[u].pc = "done" /\ up[u].resp = 200
        /\ up[v].pc = "done" /\ up[v].resp = 500 /\ up[v].error = "duplicate key value"
        /\ Cardinality(RowsWithHash(Sha256(up[u].file.bytes))) = 1

\* C3: once an upload of an archive with a denylisted entry name has been
\* answered, apps holds no row for its hash and the bucket holds no object
\* under its hash.
C3_MaliciousLeavesNothing ==
    \A u \in Uploads :
        /\ up[u].pc = "done"
        /\ up[u].file # NoFile
        /\ IsArchive(up[u].file.bytes)
        /\ Len(MaliciousFiles(up[u].file.bytes)) > 0
        => /\ RowsWithHash(Sha256(up[u].file.bytes)) = {}
           /\ KeysOfHash(Sha256(up[u].file.bytes)) = {}

\* C4: every row of apps with verified = true has status = clean.
C4_VerifiedImpliesClean ==
    \A i \in 1..Len(apps) : apps[i].verified => apps[i].status = "clean"

C4_Witness ==
    \E i \in 1..Len(apps), r \in Runs :
        /\ apps[i].verified
        /\ run[r].appId = i /\ run[r].pc = "done" /\ run[r].status = "clean"

HasWritten(r) ==
    \/ run[r].pc \in {"log", "notify"}
    \/ run[r].pc = "done" /\ run[r].resp = 200

VerdictFor(v) ==
    IF \E e \in Engines : v[e] = "positive" THEN "malicious" ELSE "clean"

\* C5: the status a scan run has written on its row is malicious exactly
\* when at least one engine reported a positive finding, whatever the other
\* engines did.
C5_MaliciousIffAnyPositive ==
    \A r \in Runs :
        HasWritten(r) => apps[run[r].appId].status = VerdictFor(run[r].outcome)

C5_Witness ==
    \E r \in Runs :
        /\ HasWritten(r)
        /\ run[r].outcome = [AllSame("failed") EXCEPT !["clamav"] = "timeout",
                                                       !["heuristic"] = "positive"]
        /\ apps[run[r].appId].status = "malicious"

\* C6: a scan request that has been received and not yet answered can always
\* take a step, also when an engine never answers: the join does not wait
\* on it for ever.
C6_ScanReturns ==
    \A r \in Runs : run[r].pc \notin {"idle", "done"} => ENABLED ScanStep(r)

\* C7: every answered scan request has written clean or malicious on its
\* row, and clean when every engine failed.
C7_AlwaysVerdict ==
    \A r \in Runs :
        run[r].pc = "done"
            => /\ run[r].resp = 200
               /\ apps[run[r].appId].status \in {"clean", "malicious"}
               /\ (\A e \in Engines : run[r].outcome[e] \in {"failed", "timeout"})
                      => apps[run[r].appId].status = "clean"

LoggedRuns(i) ==
    {r \in Runs : /\ run[r].appId = i
                  /\ run[r].status = "malicious"
                  /\ run[r].pc \in {"notify", "done"}}

WrittenRuns(i) == {r \in Runs : run[r].appId = i /\ HasWritten(r)}

ThreatLogsOf(i) == {k \in 1..Len(threat_logs) : threat_logs[k].app_id = i}

RescanSameResult ==
    \A i \in 1..Len(apps) :
        /\ Cardinality(ThreatLogsOf(i)) = Cardinality(LoggedRuns(i))
        /\ \A r \in WrittenRuns(i) :
               (\A q \in WrittenRuns(i) : run[q].outcome = run[r].outcome)
                   => /\ apps[i].status = VerdictFor(run[r].outcome)
                      /\ apps[i].verified = (VerdictFor(run[r].outcome) = "clean")

ThreatLogKept ==
    /\ Len(threat_logs') >= Len(threat_logs)
    /\ \A k \in 1..Len(threat_logs) : threat_logs'[k] = threat_logs[k]

\* C8: when every scan run that has written on a row had the same engine
\* outcomes, the row's status and verified are those of that verdict; the
\* row's threat log rows are one per malicious run that has logged; and no
\* step changes or removes a threat log row already written.
C8_RescanIdempotent == [][ThreatLogKept /\ RescanSameResult']_vars

C8_Witness ==
    \E i \in 1..Len(apps), r, q \in Runs :
        /\ r # q
        /\ run[r].appId = i /\ run[q].appId = i
        /\ run[r].pc = "done" /\ run[q].pc = "done"
        /\ run[r].status = "malicious" /\ run[q].status = "malicious"
        /\ run[r].outcome = run[q].outcome
        /\ Cardinality(ThreatLogsOf(i)) = 2
        /\ apps[i].status = "malicious" /\ ~apps[i].verified

Stage(st) == IF st = Null THEN "uploaded" ELSE st

\* C9: a row's status changes only from uploaded to scanning and from
\* scanning to clean or malicious (a row not yet scanned counts as uploaded).
C9_StatusMonotonic ==
    [][\A i \in 1..Len(apps) :
           apps'[i].status # apps[i].status
               => <<Stage(apps[i].status), apps'[i].status>> \in
                      { <<"uploaded", "scanning">>,
                        <<"scanning", "clean">>,
                        <<"scanning", "malicious">> }]_vars

\* C10: while the engines of a scan run are dispatched and no verdict has
\* been written on its row, the row's status is scanning.
C10_ScanningWhileDispatched ==
    \A r \in Runs :
        /\ run[r].pc \in {"await", "hung"}
        /\ run[r].appId \in 1..Len(apps)
        /\ apps[run[r].appId].status \notin {"clean", "malicious"}
        => apps[run[r].appId].status = "scanning"

\* ------------------------------------------------------ claims C11..C20
\* No other upload carries the bytes of upload u.
AloneWithBytes(u) ==
    \A v \in Uploads : v # u => up[v].file.bytes # up[u].file.bytes

\* C11: an upload answered with a failure of a storage write (a PutObject
\* or the insert) that is the only upload of its bytes leaves no key of its
\* hash in the bucket and no row; and every row of apps has its blob in the
\* bucket.
C11_AllOrNothing ==
    /\ \A u \in Uploads :
           (/\ up[u].pc = "done" /\ AloneWithBytes(u)
            /\ up[u].error \in {"S3 error", "database error"})
           => /\ KeysOfHash(up[u].fileHash) = {}
              /\ RowsWithHash(up[u].fileHash) = {}
    /\ \A i \in 1..Len(apps) : KeyOfUrl(apps[i].download_url) \in DOMAIN s3

\* C12: an upload that has inserted its row is answered with success,
\* whatever becomes of its request to the scan worker.
C12_ResponseIndependentOfScan ==
    \A u \in Uploads :
        (up[u].pc = "done" /\ up[u].appId # 0) => (up[u].resp = 200 /\ up[u].error = "")

\* C13: the step that answers an upload 409 "App already exists" is the
\* upload's first step and leaves the bucket, every table, and the scan
\* requests as they were.
C13_DuplicateWritesNothing ==
    [][\A u \in Uploads :
          (up[u].resp # 409 /\ up'[u].resp = 409)
          => /\ up[u].pc = "idle"
             /\ UNCHANGED stores
             /\ UNCHANGED <<run, nextRun>>]_vars

\* An upload answered 409 for bytes stored under another file extension,
\* with a single row and a single package blob in place.
C13_Witness ==
    \E u \in Uploads :
        /\ up[u].pc = "done" /\ up[u].resp = 409
        /\ Len(apps) = 1
        /\ apps[1].hash = up[u].fileHash
        /\ KeyOfUrl(apps[1].download_url) # S3Key(up[u].fileHash, up[u].file.ext)
        /\ {k \in KeysOfHash(up[u].fileHash) : k[1] = "apks"}
               = {KeyOfUrl(apps[1].download_url)}

\* C14: an upload of an archive with matching entry names, once past the
\* PutObject of the package, is answered 400 "Malicious files detected" with
\* files holding every matching entry name.
C14_MaliciousContentReported ==
    \A u \in Uploads :
        (/\ up[u].pc = "done"
         /\ Len(MaliciousFiles(up[u].file.bytes)) > 0
         /\ up[u].error # "S3 error")
        => /\ up[u].resp = 400
           /\ up[u].error = "Malicious files detected"
           /\ up[u].files = MaliciousFiles(up[u].file.bytes)

\* C15: an upload of bytes that are no archive, once answered, has failed,
\* has no row and, being the only upload of its bytes, has no key of its
\* hash in the bucket.
C15_InvalidArchiveRolledBack ==
    \A u \in Uploads :
        (/\ up[u].pc = "done" /\ up[u].file # NoFile
         /\ ~IsArchive(up[u].file.bytes) /\ AloneWithBytes(u))
        => /\ up[u].resp # 200
           /\ RowsWithHash(up[u].fileHash) = {}
           /\ KeysOfHash(up[u].fileHash) = {}

\* The archive declares more uncompressed bytes than the configured limit.
ExceedsCeiling(b) == IsArchive(b) /\ UncompressedSize(b) > FileSizeLimit

\* C16: an upload of an archive over the ceiling never reaches the steps
\* that decompress an entry (the icon, the screenshots), gets no row and is
\* not answered with success.
C16_ArchiveTooLargeRejected ==
    \A u \in Uploads :
        ExceedsCeiling(up[u].file.bytes)
        => /\ up[u].pc \notin {"icon", "shots", "trigger"}
           /\ up[u].appId = 0
           /\ up[u].resp # 200
           /\ RowsWithHash(up[u].fileHash) = {}

\* C17: the step that answers an upload whose file or manifest is missing,
\* or whose manifest does not parse, answers 400 and leaves the bucket,
\* every table and the scan requests as they were.
C17_InvalidInputRejected ==
    [][\A u \in Uploads :
          (/\ up[u].pc = "idle"
           /\ up'[u].error \in {"File and manifest required", "Unexpected token"})
          => /\ up'[u].resp = 400
             /\ UNCHANGED stores
             /\ UNCHANGED <<run, nextRun>>]_vars

\* C18: with no scan served, every row of apps is as the insert left it:
\* status "uploaded", verified false and no scan results.
C18_InsertedAsUploaded ==
    \A i \in 1..Len(apps) :
        /\ apps[i].status = "uploaded"
        /\ apps[i].verified = FALSE
        /\ apps[i].scan_results = <<>>

\* C19: in every state, every row of apps has an object in the bucket at
\* the key of its download_url, and the SHA-256 of that object's bytes is
\* the row's hash.
C19_StoredBytesMatchHash ==
    \A i \in 1..Len(apps) :
        /\ KeyOfUrl(apps[i].download_url) \in DOMAIN s3
        /\ Sha256(BlobOf(i)) = apps[i].hash

\* A row whose package is in the bucket next to the package of an upload
\* of other bytes.
C19_Witness ==
    /\ Len(apps) >= 1
    /\ KeyOfUrl(apps[1].download_url) \in DOMAIN s3
    /\ \E k \in DOMAIN s3 : k[1] = "apks" /\ k[2] # apps[1].hash

\* C20: the step in which notifyAdmin returns, whether its insert landed
\* or failed, leaves the apps table and the threat log as they were: the
\* row still carries the run's verdict (status malicious, not verified, the
\* run's scan results) and the threat log still holds the run's entry.
C20_NotifyBestEffort ==
    [][\A r \in Runs :
          (run[r].pc = "notify" /\ run'[r].pc = "done")
          => /\ apps' = apps
             /\ threat_logs' = threat_logs
             /\ apps'[run[r].appId].status = "malicious"
             /\ apps'[run[r].appId].verified = FALSE
             /\ apps'[run[r].appId].scan_results = <<run[r].results>>
             /\ \E i \in 1..Len(threat_logs') : threat_logs'[i] = ThreatLogRow(r)]_vars

\* A malicious run that has returned without its notification stored.
C20_Witness ==
    \E r \in Runs :
        /\ run[r].pc = "done" /\ run[r].status = "malicious"
        /\ admin_notifications = <<>>
        /\ apps[run[r].appId].status = "malicious"
        /\ Len(threat_logs) = 1

\* ------------------------------------------------------ claims C21..C30
\* The row's verified, status, scan_results and threats are the ones run r
\* computed.
RowIsFromRun(i, r) ==
    /\ run[r].appId = apps[i].id
    /\ HasWritten(r)
    /\ apps[i].verified = (run[r].status = "clean")
    /\ apps[i].status = run[r].status
    /\ apps[i].scan_results = <<run[r].results>>
    /\ apps[i].threats = (IF Len(run[r].threats) > 0 THEN <<run[r].threats>> ELSE <<>>)

\* C21: in every state, a row that some scan run has written carries in
\* verified, status, scan_results and threats the values of one single run
\* among those that have written it.
C21_RowFromOneRun ==
    \A i \in 1..Len(apps) :
        (\E r \in Runs : run[r].appId = apps[i].id /\ HasWritten(r))
        => \E r \in Runs : RowIsFromRun(i, r)

\* Two runs with different verdicts have both written the same row.
C21_Witness ==
    \E i \in 1..Len(apps), r, q \in Runs :
        /\ run[r].appId = apps[i].id /\ run[q].appId = apps[i].id
        /\ HasWritten(r) /\ HasWritten(q)
        /\ run[r].status = "clean" /\ run[q].status = "malicious"

\* C22: a scan run that has returned with a verdict has left its row
\* verified and clean and the threat log empty when the verdict is clean,
\* and its row not verified and malicious and exactly one threat log row,
\* with the run's threats, when the verdict is malicious (one run on the
\* package).
C22_ThreatLogIffMalicious ==
    \A r \in Runs :
        (run[r].pc = "done" /\ run[r].resp = 200)
        => /\ run[r].status \in {"clean", "malicious"}
           /\ run[r].status = "clean"
                  => /\ threat_logs = <<>>
                     /\ apps[run[r].appId].verified = TRUE
                     /\ apps[run[r].appId].status = "clean"
           /\ run[r].status = "malicious"
                  => /\ Len(threat_logs) = 1
                     /\ threat_logs[1].app_id = run[r].appId
                     /\ threat_logs[1].threats = run[r].threats
                     /\ Len(run[r].threats) > 0
                     /\ apps[run[r].appId].verified = FALSE
                     /\ apps[run[r].appId].status = "malicious"

\* A clean run and no threat log row.
C22_Witness ==
    \E r \in Runs :
        /\ run[r].pc = "done" /\ run[r].resp = 200 /\ run[r].status = "clean"
        /\ threat_logs = <<>>
        /\ apps[run[r].appId].verified

\* Row i has the same verified, status and scan_results after the step.
VerdictFieldsKept(i) ==
    /\ apps'[i].verified = apps[i].verified
    /\ apps'[i].status = apps[i].status
    /\ apps'[i].scan_results = apps[i].scan_results

\* C23: a step changes verified, status or scan_results of an existing row
\* only when it is the update of a scan run for that row; a step of an
\* upload leaves every existing row as it is, and a step of an install
\* changes at most the downloads of the rows.
C23_ScanIsSoleWriter ==
    [][/\ Len(apps') >= Len(apps)
       /\ \A i \in 1..Len(apps) :
              \/ VerdictFieldsKept(i)
              \/ \E r \in Runs : /\ run[r].pc = "update" /\ run'[r].pc # "update"
                                  /\ run[r].appId = apps[i].id
       /\ up' # up => \A i \in 1..Len(apps) : apps'[i] = apps[i]
       /\ inst' # inst =>
              /\ Len(apps') = Len(apps)
              /\ \A i \in 1..Len(apps) :
                     apps'[i] = [apps[i] EXCEPT !.downloads = apps'[i].downloads]]_vars

\* An install has raised the downloads of a row a scan run has verified,
\* after the upload that inserted the row returned.
C23_Witness ==
    \E i \in 1..Len(apps), u \in Uploads :
        /\ up[u].pc = "done" /\ up[u].appId = i
        /\ apps[i].downloads > 0
        /\ apps[i].verified /\ apps[i].status = "clean"

\* C24: the step in which an install request reads a row whose verified is
\* false answers 403 and changes no table and no bucket key; a request that
\* has been answered takes no further step.
C24_InstallOnlyVerified ==
    [][\A n \in Installs :
          /\ (/\ inst[n].pc = "get" /\ inst'[n] # inst[n]
               /\ inst[n].appId \in 1..Len(apps)
               /\ ~apps[inst[n].appId].verified)
              => /\ inst'[n].pc = "done" /\ inst'[n].resp = 403
                 /\ UNCHANGED stores
          /\ inst[n].pc = "done" => inst'[n] = inst[n]]_vars

\* An install refused for a row a scan run has marked malicious, with no
\* installation, no shortcut and the counter at 0.
C24_Witness ==
    \E n \in Installs :
        /\ inst[n].pc = "done" /\ inst[n].resp = 403
        /\ apps[inst[n].appId].status = "malicious"
        /\ installations = <<>> /\ shortcuts = <<>>
        /\ apps[inst[n].appId].downloads = 0

\* C25: once the engines of a scan run have behaved (each one answered,
\* failed, timed out or stayed silent), the run is not stuck, its results
\* hold for every engine that engine's own result, with the failure reason
\* when it did not answer, and whether the run returns with success does not
\* depend on the failures.
C25_EnginesIndependent ==
    \A r \in Runs :
        run[r].outcome # <<>>
        => /\ run[r].pc # "hung"
           /\ \A e \in Engines :
                  /\ run[r].results[e] # <<>>
                  /\ run[r].outcome[e] \notin {"positive", "negative"}
                         => run[r].results[e][1].error = run[r].outcome[e]
                  /\ run[r].outcome[e] \in {"positive", "negative"}
                         => run[r].results[e][1].error = Null
           /\ run[r].pc = "done" => run[r].resp = 200

\* C26: whatever the order in which the engines settled, the status the
\* run decides is the one the same outcomes give when taken in dispatch
\* order, which is malicious exactly when an engine was positive.
C26_VerdictOrderIndependent ==
    \A r \in Runs :
        run[r].pc \in {"update", "log", "notify", "done"}
        => /\ run[r].status = StatusOf(ThreatsOf(CompileResults(AllSettled(run[r].outcome))))
           /\ run[r].status = VerdictFor(run[r].outcome)

\* A verdict decided with the engines settled in the reverse of their
\* dispatch order, the one positive engine neither first nor last.
C26_Witness ==
    \E r \in Runs :
        /\ run[r].pc = "update"
        /\ run[r].order = <<"heuristic", "yara", "virustotal", "clamav">>
        /\ run[r].outcome["yara"] = "positive"
        /\ \A e \in Engines \ {"yara"} : run[r].outcome[e] # "positive"
        /\ run[r].status = "malicious"

\* The prefix of the threat string of engine e.
EngineLabel(e) ==
    CASE e = "clamav"     -> "ClamAV"
      [] e = "virustotal" -> "VirusTotal"
      [] e = "yara"       -> "YARA"
      [] OTHER            -> "Heuristic"

\* C27: the threats of a scan run hold exactly one string for every engine
\* that was positive and none for any other engine, so that their number is
\* the number of positive engines.
C27_OneThreatPerPositiveEngine ==
    \A r \in Runs :
        run[r].pc \in {"update", "log", "notify", "done"} /\ run[r].results # <<>>
        => /\ Len(run[r].threats)
                  = Cardinality({e \in Engines : run[r].outcome[e] = "positive"})
           /\ \A e \in Engines :
                  Cardinality({k \in 1..Len(run[r].threats) :
                                   run[r].threats[k][1] = EngineLabel(e)})
                      = (IF run[r].outcome[e] = "positive" THEN 1 ELSE 0)

\* Two engines positive, one negative and one failed: two threats.
C27_Witness ==
    \E r \in Runs :
        /\ run[r].pc = "update"
        /\ run[r].outcome["clamav"] = "positive"
        /\ run[r].outcome["virustotal"] = "failed"
        /\ run[r].outcome["yara"] = "negative"
        /\ run[r].outcome["heuristic"] = "positive"
        /\ Len(run[r].threats) = 2

\* The name matches a denylist pattern when case is ignored.
MatchesDenylistIgnoringCase(name) ==
    \/ MatchesSuffix(name)
    \/ \E i \in 1..Len(name) : Lower(name[i]) \in {"__macosx", ".ds_store"}

\* The handler has opened the archive of upload u and tested its entry
\* names: it has gone on to the icon, or thrown in the branch of the
\* matching names.
Inspected(u) ==
    \/ up[u].pc \in {"icon", "shots", "trigger"}
    \/ up[u].pc = "done" /\ up[u].error = "DeleteObjectCommand is not defined"

\* C28: the entry names the handler finds malicious in an archive it has
\* inspected are exactly the names that match the denylist when case is
\* ignored, junk names and suffixes alike; the handler goes on exactly when
\* there is none.
C28_DenylistIgnoresCase ==
    \A u \in Uploads :
        Inspected(u)
        => /\ MaliciousFiles(up[u].file.bytes)
                  = SelectSeq(Entries(up[u].file.bytes), MatchesDenylistIgnoringCase)
           /\ up[u].pc \in {"icon", "shots", "trigger"}
                  <=> SelectSeq(Entries(up[u].file.bytes), MatchesDenylistIgnoringCase) = <<>>

\* The heuristic engine of run r has settled.
Analysed(r) == "heuristic" \in DOMAIN run[r].results

\* C29: on every buffer the heuristic function's promise is fulfilled; on
\* bytes that are no archive, or whose manifest or certificate entry cannot
\* be read, the result has suspicious false and an error; a result with an
\* error is never suspicious, and a result without one is suspicious
\* exactly when its reasons are not empty.
C29_HeuristicNeverThrows ==
    \A r \in Runs :
        Analysed(r)
        => /\ run[r].results["heuristic"].status = "fulfilled"
           /\ (\/ ~run[r].buffer.zip
               \/ HasManifest(run[r].buffer.names) /\ run[r].buffer.manifestText = "unreadable"
               \/ HasCert(run[r].buffer.names) /\ run[r].buffer.certRead = "unreadable")
              => /\ run[r].results["heuristic"].value.suspicious = FALSE
                 /\ run[r].results["heuristic"].value.error # Null
           /\ run[r].results["heuristic"].value.error # Null
                  => run[r].results["heuristic"].value.suspicious = FALSE
           /\ run[r].results["heuristic"].value.error = Null
                  => (run[r].results["heuristic"].value.suspicious
                        <=> Len(run[r].results["heuristic"].value.reasons) > 0)

\* The function has answered on an archive whose certificate entry cannot
\* be read, although two of its entry names are suspicious.
C29_Witness ==
    \E r \in Runs :
        /\ Analysed(r)
        /\ run[r].buffer.zip
        /\ HasCert(run[r].buffer.names) /\ run[r].buffer.certRead = "unreadable"
        /\ Len(SelectSeq(run[r].buffer.names, IsSuspiciousName)) = 2
        /\ run[r].results["heuristic"].value.suspicious = FALSE

\* C30: on every buffer whose entropy is above 7.5 the heuristic result is
\* suspicious and has a high-entropy indicator among its reasons.
C30_HighEntropyFlagged ==
    \A r \in Runs :
        (Analysed(r) /\ calculateEntropy(run[r].buffer) > EntropyThreshold)
        => /\ run[r].results["heuristic"].value.suspicious
           /\ \E k \in 1..Len(run[r].results["heuristic"].value.reasons) :
                  run[r].results["heuristic"].value.reasons[k][1] = "High entropy detected"

\* ------------------------------------------------------ claims C31..C39
\* The positions in the archive's enumeration of the entries whose name
\* holds 'screenshot' and ends in an image extension.
ScreenshotPositions(b) == {j \in 1..Len(Entries(b)) : IsScreenshot(Entries(b)[j])}

\* The k-th of those positions.
KthScreenshotPosition(b, k) ==
    CHOOSE j \in ScreenshotPositions(b) :
        Cardinality({m \in ScreenshotPositions(b) : m < j}) = k - 1

\* C31: in every state every row of apps has at most 5 screenshot urls,
\* as many as the archive has matching entries up to 5, and the k-th url
\* points at an object holding the k-th matching entry of the archive in
\* enumeration order.
C31_FirstFiveScreenshots ==
    \A i \in 1..Len(apps) :
        /\ Len(apps[i].screenshot_urls) <= 5
        /\ Len(apps[i].screenshot_urls)
               = (IF Cardinality(ScreenshotPositions(BlobOf(i))) < 5
                  THEN Cardinality(ScreenshotPositions(BlobOf(i))) ELSE 5)
        /\ \A k \in 1..Len(apps[i].screenshot_urls) :
               /\ KeyOfUrl(apps[i].screenshot_urls[k]) \in DOMAIN s3
               /\ s3[KeyOfUrl(apps[i].screenshot_urls[k])]
                      = <<"shot", BlobOf(i),
                          Entries(BlobOf(i))[KthScreenshotPosition(BlobOf(i), k)]>>

\* A row for the archive with seven matching entries.
C31_Witness ==
    \E i \in 1..Len(apps) :
        /\ Cardinality(ScreenshotPositions(BlobOf(i))) = 7
        /\ Len(apps[i].screenshot_urls) = 5

\* The buffer is empty or holds one byte value only.
OneValueOnly(buffer) == buffer.distinct <= 1 \/ buffer.each = 0

ScanUnderWay(i) ==
    \E r \in Runs : run[r].pc \notin {"idle", "done"} /\ run[r].appId = i

\* C33: once the upload that inserted a row has been answered and no scan
\* run of the row is under way, the row has a terminal status: nothing is
\* left in a non-terminal status with no work pending on it.
C33_TerminalOnceAtRest ==
    \A u \in Uploads :
        (up[u].pc = "done" /\ up[u].appId \in 1..Len(apps) /\ ~ScanUnderWay(up[u].appId))
        => apps[up[u].appId].status \in {"clean", "malicious"}

\* Run r was given the hash of its row and the location of its row's blob.
NamesOwnPackage(r) ==
    /\ run[r].fileHash = apps[run[r].appId].hash
    /\ run[r].url = apps[run[r].appId].download_url

\* C34: a row that is verified holds the verdict of a scan run that was
\* given the row's own hash and downloaded from the row's own blob location.
C34_VerifiedByOwnBytes ==
    \A r \in Runs :
        (HasWritten(r) /\ RowIsFromRun(run[r].appId, r) /\ apps[run[r].appId].verified)
        => NamesOwnPackage(r)

\* C35: in every step that inserts an installation row, whatever scan runs
\* are under way, the package installed is verified in the apps table at
\* that moment.
C35_InsertOnlyWhileVerified ==
    [][Len(installations') > Len(installations)
           => apps[installations'[Len(installations')].app_id].verified]_vars

\* C36: once no install request is in progress, and each request was made
\* by a user of its own, the downloads counter of every row equals the
\* number of install requests for it that were answered with success.
C36_DownloadsCountInstalls ==
    (/\ \A n \in Installs : inst[n].pc \in {"idle", "done"}
     /\ \A n, m \in Installs :
            (n # m /\ inst[n].pc = "done" /\ inst[m].pc = "done")
            => inst[n].userId # inst[m].userId)
    => \A i \in 1..Len(apps) :
           apps[i].downloads =
               Cardinality({n \in Installs : /\ inst[n].pc = "done" /\ inst[n].resp = 200
                                              /\ inst[n].appId = i})

\* Login requests answered after a wrong password was verified.
WrongPasswordDone ==
    {l \in Logins : /\ login[l].pc = "done" /\ login[l].resp = 401
                     /\ login[l].user # <<>> /\ login[l].attempt.password = "wrong"}

\* No login request has passed the password check.
NoneAdmitted ==
    \A l \in Logins : login[l].pc \notin {"session", "reset"} /\ login[l].resp # 200

\* C37: counting from the last successful login, once five login requests
\* with a wrong password have been answered for the account (the three that
\* lie behind and those of this behaviour, concurrent ones included), its
\* locked_until is set.
C37_LockedAfterFiveFailures ==
    (NoneAdmitted /\ PriorFailures + Cardinality(WrongPasswordDone) >= LockThreshold)
    => users[1].locked_until # <<>>

\* Request l has a row of its own in sessions.
HasSession(l) ==
    \E k \in 1..Len(sessions) : sessions[k].session_hash = <<"sha256", l>>

\* C38: in a step taken while the account's locked_until lies in the
\* future, no session is created, no response comes to carry a token, and
\* failed_attempts and locked_until stay as they are.
C38_LockedAccountUntouched ==
    [][IsLocked(users[1])
           => /\ sessions' = sessions
              /\ \A l \in Logins : login'[l].token = login[l].token
              /\ users'[1].failed_attempts = users[1].failed_attempts
              /\ users'[1].locked_until = users[1].locked_until]_vars

\* Request l gave the account's password and, where the row it read
\* enables TOTP, a valid code.
PassedChecks(l) ==
    /\ login[l].user # <<>>
    /\ login[l].attempt.password = "right"
    /\ login[l].user[1].totp_enabled => login[l].attempt.totp = "valid"

\* C39: a session row or a token comes only from a login request whose
\* password matched and whose TOTP code, where TOTP is enabled, was valid;
\* the step that answers such a request with the token sets
\* failed_attempts to 0 and clears locked_until; a request answered with a
\* rejection has no session and no token.
C39_SessionOnlyAfterChecks ==
    [][\A l \in Logins :
          /\ (HasSession(l)' \/ login'[l].token) => PassedChecks(l)'
          /\ (login'[l].token /\ ~login[l].token)
                 => /\ users'[1].failed_attempts = 0
                    /\ users'[1].locked_until = <<>>
          /\ (login'[l].pc = "done" /\ login'[l].resp # 200)
                 => ~HasSession(l)' /\ ~login'[l].token]_vars

\* A request with the right password and a valid code for an account with
\* TOTP enabled and three failures behind it was answered with a token and
\* has its session row; the failures are reset.
C39_Witness ==
    \E l \in Logins :
        /\ login[l].pc = "done" /\ login[l].resp = 200 /\ login[l].token
        /\ login[l].user[1].totp_enabled /\ login[l].user[1].failed_attempts = PriorFailures
        /\ HasSession(l)
        /\ users[1].failed_attempts = 0 /\ users[1].locked_until = <<>>

====
